---- MODULE Spec2Model ----
(***************************************************************************)
(* nwws-oi: the supervising reconnect loop of src/stream.rs (run,          *)
(* run_once), the bounded tokio mpsc channel it publishes on, the consumer *)
(* side of Stream, and the Connection of src/connection.rs as far as the   *)
(* supervisor observes it.                                                 *)
(***************************************************************************)
EXTENDS Integers, Sequences, FiniteSets, TLC

\* ---------------------------------------------------------------- constants

\* tokio::sync::mpsc::channel(32)
ChannelCapacity == 32

\* tokio::time::timeout(Duration::from_secs(75), Connection::new(config))
ConnectTimeout == 75

\* Error::Configuration(_) | Error::Credentials(_) => 300
LongCooldown == 300

\* _ => 10
ShortCooldown == 10

\* tokio::time::sleep(Duration::from_secs(5)) in run
MinimumDelay == 5

\* ------------------------------------------------------------------- bounds

\* Connecting events the model lets the supervisor publish.
MaxAttempts == 2

\* Bulletins the transport delivers over all sessions of a run.
MaxMessages == 2

\* Bulletins delivered in the burst scenario (one attempt, slow consumer).
BurstMessages == 31

\* A sleep of d seconds takes d .. d + MaxJitter seconds.
MaxJitter == 1

\* Characters in the longest payload text handed to the Decoder.
MaxBody == 6

\* Units the transport yields to one Connection.
MaxUnits == 4

\* -------------------------------------------------------------------- types

\* enum Error
ErrorKinds == {"Configuration", "Credentials", "Network", "XmppParseError", "StreamEnded"}

\* enum StreamEvent, enum ConnectionState
ConnectionStateEvent(s) == [type |-> "ConnectionState", state |-> s, error |-> "-", msg |-> 0]

ErrorEvent(e) == [type |-> "Error", state |-> "-", error |-> e, msg |-> 0]

MessageEvent(m) == [type |-> "Message", state |-> "-", error |-> "-", msg |-> m]

NoEvent == [type |-> "-", state |-> "-", error |-> "-", msg |-> 0]

Connecting == ConnectionStateEvent("Connecting")

Connected == ConnectionStateEvent("Connected")

Disconnected == ConnectionStateEvent("Disconnected")

VARIABLES
    pc,           \* where the task `run` is suspended
    attempt,      \* outcome of timeout(.., Connection::new): "-", "ok", "err", "timeout"
    err,          \* the Error `e` the current attempt failed with, "-" when none
    msg,          \* the Message held by run_once awaiting its send, 0 when none
    conn,         \* the transport of the current attempt: "none", "bound", "joined"
    connTime,     \* seconds the current Connection::new has been pending
    ending,       \* spawned conn.end() tasks: how many await the leave, how many the close
    chan,         \* the mpsc buffer: entries [ev, seq]
    senders,      \* live Sender handles (tx and its clone in run_once)
    rxAlive,      \* the consumer still holds the Stream
    nsent,        \* events published so far
    nrecv,        \* events the consumer has received so far
    lastEvt,      \* the last event published
    prevEvt,      \* the event published before lastEvt
    sleeps,       \* durations passed to sleep since the attempt began
    elapsed,      \* seconds actually slept since the attempt began
    duration,     \* the cooldown run_once computed for a failed connect, 0 when none
    attemptsLeft, \* Connecting events the model may still publish
    nmsg,         \* bulletins next_message has returned so far
    msgBudget,    \* bulletins the transport delivers in this run
    dec,          \* a Message::try_from under test: its input and its result
    sess,         \* a Connection driven directly by a caller
    config,       \* the Config the Stream was made with
    connConfig    \* the Config the last Connection::new was given

vars == <<pc, attempt, err, msg, conn, connTime, ending, chan, senders, rxAlive,
          nsent, nrecv, lastEvt, prevEvt, sleeps, elapsed, duration, attemptsLeft,
          nmsg, msgBudget, dec, sess, config, connConfig>>

\* A Config, as Config::from((username, password)) makes it, and no Config.
TheConfig ==
    [username |-> "user", resource |-> "resource", password |-> "secret",
     server |-> "Primary", channel |-> "Default"]

NoConfig ==
    [username |-> "-", resource |-> "-", password |-> "-", server |-> "-",
     channel |-> "-"]

\* ------------------------------------------------------------------ channel

\* Mutant: the buffer takes one event more than its capacity.
HasCapacityOffByOne == Len(chan) <= ChannelCapacity

\* Sender::send completes only when the buffer has a free slot.
HasCapacity == Len(chan) < ChannelCapacity

\* A successful tx.send(e).await: e is appended to the buffer.
Publish(e) ==
    /\ rxAlive
    /\ HasCapacity
    /\ chan' = Append(chan, [ev |-> e, seq |-> nsent + 1])
    /\ nsent' = nsent + 1
    /\ prevEvt' = lastEvt
    /\ lastEvt' = e

\* Mutant: the SendError is ignored and the loop goes on.
SendFailsIgnored ==
    /\ ~rxAlive
    /\ pc' = "sleep_floor"
    /\ senders' = 1
    /\ conn' = "none"
    /\ msg' = 0
    /\ UNCHANGED <<attempt, err, connTime, ending, chan, nsent, lastEvt, prevEvt,
                   sleeps, elapsed, duration, attemptsLeft, nmsg, msgBudget>>

\* tx.send(e).await? when the Receiver is gone: SendError propagates out of
\* run_once and run, dropping conn, tx and its clone.
SendFails ==
    /\ ~rxAlive
    /\ pc' = "done"
    /\ senders' = 0
    /\ conn' = "none"
    /\ msg' = 0
    /\ UNCHANGED <<attempt, err, connTime, ending, chan, nsent, lastEvt, prevEvt,
                   sleeps, elapsed, duration, attemptsLeft, nmsg, msgBudget>>

\* ---------------------------------------------------------------------- run

\* run: tx.send(ConnectionState(Connecting)).await?; run_once(config.clone(), tx.clone())
SendConnecting ==
    /\ pc = "send_connecting"
    /\ \/ SendFails
       \/ /\ attemptsLeft > 0
          /\ Publish(Connecting)
          /\ pc' = "handshake"
          /\ senders' = 2
          /\ attempt' = "-"
          /\ err' = "-"
          /\ connTime' = 0
          /\ sleeps' = <<>>
          /\ elapsed' = 0
          /\ duration' = 0
          /\ attemptsLeft' = attemptsLeft - 1
          /\ UNCHANGED <<msg, conn, ending, nmsg, msgBudget>>
    /\ UNCHANGED <<rxAlive, nrecv>>
    /\ UNCHANGED <<dec, sess, config, connConfig>>

\* A sleep of d seconds: the duration asked for, and the time it took.
Sleep(d) ==
    /\ sleeps' = Append(sleeps, d)
    /\ \E j \in 0..MaxJitter : elapsed' = elapsed + d + j

\* Mutant: the floor is slept only when no cooldown was.
SleepFloorOnlyWithoutCooldown ==
    /\ pc = "sleep_floor"
    /\ IF sleeps = <<>> THEN Sleep(MinimumDelay) ELSE UNCHANGED <<sleeps, elapsed>>
    /\ pc' = "send_connecting"
    /\ UNCHANGED <<attempt, err, msg, conn, connTime, ending, chan, senders, rxAlive,
                   nsent, nrecv, lastEvt, prevEvt, duration, attemptsLeft, nmsg,
                   msgBudget>>
    /\ UNCHANGED <<dec, sess, config, connConfig>>

\* run: tokio::time::sleep(Duration::from_secs(5)).await, then the loop repeats
SleepFloor ==
    /\ pc = "sleep_floor"
    /\ Sleep(MinimumDelay)
    /\ pc' = "send_connecting"
    /\ UNCHANGED <<attempt, err, msg, conn, connTime, ending, chan, senders, rxAlive,
                   nsent, nrecv, lastEvt, prevEvt, duration, attemptsLeft, nmsg,
                   msgBudget>>
    /\ UNCHANGED <<dec, sess, config, connConfig>>

\* ---------------------------------------------------------- Connection::new

\* The await points of Connection::new, all under the 75 s timeout.
ConnectingPcs == {"handshake", "send_join", "wait_for_join"}

\* What tokio_xmpp::SimpleClient::new can fail with.
HandshakeErrors == {"JidParse", "Auth", "Other"}

\* Mutant: a handshake failure is a network error, whatever it was.
ClassifyHandshakeAllNetwork(xe) == "Network"

\* map_err of SimpleClient::new: the classification of a handshake failure.
ClassifyHandshake(xe) ==
    CASE xe = "JidParse" -> "Configuration"
      [] xe = "Auth" -> "Credentials"
      [] OTHER -> "Network"

\* Mutant: every connect error gets the short cooldown.
CooldownForAlwaysShort(e) == ShortCooldown

\* Mutant: every connect error gets the long cooldown.
CooldownForAlwaysLong(e) == LongCooldown

\* let duration = match e { Configuration(_) | Credentials(_) => 300, _ => 10 }
CooldownFor(e) ==
    IF e \in {"Configuration", "Credentials"} THEN LongCooldown ELSE ShortCooldown

\* Connection::new returned Err(e): run_once takes the Ok(Err(e)) arm and
\* computes the cooldown before its first send.
ConnectFailed(e) ==
    /\ attempt' = "err"
    /\ err' = e
    /\ duration' = CooldownFor(e)
    /\ conn' = "none"
    /\ pc' = "send_error_connect"

\* tokio_xmpp::SimpleClient::new(&jid, password).await.map_err(..)?
Handshake ==
    /\ pc = "handshake"
    /\ \/ /\ conn' = "bound"
          /\ pc' = "send_join"
          /\ UNCHANGED <<attempt, err, duration>>
       \/ \E xe \in HandshakeErrors : ConnectFailed(ClassifyHandshake(xe))
    /\ UNCHANGED <<msg, connTime, ending, chan, senders, rxAlive, nsent, nrecv,
                   lastEvt, prevEvt, sleeps, elapsed, attemptsLeft, nmsg, msgBudget>>
    /\ UNCHANGED <<dec, sess, config>>
    /\ connConfig' = config

\* client.send_stanza(join_message).await?   (From<tokio_xmpp::Error> is Network)
SendJoin ==
    /\ pc = "send_join"
    /\ \/ /\ pc' = "wait_for_join"
          /\ UNCHANGED <<attempt, err, duration, conn>>
       \/ ConnectFailed("Network")
    /\ UNCHANGED <<msg, connTime, ending, chan, senders, rxAlive, nsent, nrecv,
                   lastEvt, prevEvt, sleeps, elapsed, attemptsLeft, nmsg, msgBudget>>
    /\ UNCHANGED <<dec, sess, config, connConfig>>

\* What client.try_next() can yield while waiting for the join.
JoinItems ==
    {[kind |-> k, stanza |-> "-", mucUser |-> FALSE, selfPresence |-> FALSE] :
        k \in {"error", "closed"}}
    \cup [kind : {"item"}, stanza : {"presence", "message", "iq"},
          mucUser : BOOLEAN, selfPresence : BOOLEAN]

\* Mutant: any presence with a MucUser payload ends the wait.
IsSelfPresenceAnyMucUser(item) ==
    item.kind = "item" /\ item.stanza = "presence" /\ item.mucUser

\* Presence::try_from(item) is Ok and a MucUser payload has Status::SelfPresence
IsSelfPresence(item) ==
    item.kind = "item" /\ item.stanza = "presence" /\ item.mucUser /\ item.selfPresence

\* 'wait_for_join: loop { let item = client.try_next().await?.ok_or(StreamEnded)?; .. }
WaitForJoin ==
    /\ pc = "wait_for_join"
    /\ \E item \in JoinItems :
        CASE item.kind = "error" -> ConnectFailed("Network")
          [] item.kind = "closed" -> ConnectFailed("StreamEnded")
          [] IsSelfPresence(item) ->
                /\ attempt' = "ok"
                /\ conn' = "joined"
                /\ pc' = "send_connected"
                /\ UNCHANGED <<err, duration>>
          [] OTHER -> UNCHANGED <<attempt, err, duration, conn, pc>>
    /\ UNCHANGED <<msg, connTime, ending, chan, senders, rxAlive, nsent, nrecv,
                   lastEvt, prevEvt, sleeps, elapsed, attemptsLeft, nmsg, msgBudget>>
    /\ UNCHANGED <<dec, sess, config, connConfig>>

\* Connection::new stays pending until the 75 s deadline.
ConnectStalls ==
    /\ pc \in ConnectingPcs
    /\ connTime < ConnectTimeout
    /\ connTime' = ConnectTimeout
    /\ UNCHANGED <<pc, attempt, err, msg, conn, ending, chan, senders, rxAlive, nsent,
                   nrecv, lastEvt, prevEvt, sleeps, elapsed, duration, attemptsLeft,
                   nmsg, msgBudget>>
    /\ UNCHANGED <<dec, sess, config, connConfig>>

\* Mutant: the elapsed timeout propagates out of run and ends the loop.
ConnectTimedOutFatal ==
    /\ pc \in ConnectingPcs
    /\ connTime = ConnectTimeout
    /\ attempt' = "timeout"
    /\ conn' = "none"
    /\ senders' = 0
    /\ pc' = "done"
    /\ UNCHANGED <<err, msg, connTime, ending, chan, rxAlive, nsent, nrecv, lastEvt,
                   prevEvt, sleeps, elapsed, duration, attemptsLeft, nmsg, msgBudget>>
    /\ UNCHANGED <<dec, sess, config, connConfig>>

\* Mutant: the elapsed timeout is reported like a failed connect.
ConnectTimedOutAsError ==
    /\ pc \in ConnectingPcs
    /\ connTime = ConnectTimeout
    /\ attempt' = "timeout"
    /\ err' = "Network"
    /\ duration' = ShortCooldown
    /\ conn' = "none"
    /\ pc' = "send_error_connect"
    /\ UNCHANGED <<msg, connTime, ending, chan, senders, rxAlive, nsent, nrecv,
                   lastEvt, prevEvt, sleeps, elapsed, attemptsLeft, nmsg, msgBudget>>
    /\ UNCHANGED <<dec, sess, config, connConfig>>

\* timeout(..) yields Err(Elapsed): the pending Connection::new is dropped.
ConnectTimedOut ==
    /\ pc \in ConnectingPcs
    /\ connTime = ConnectTimeout
    /\ attempt' = "timeout"
    /\ conn' = "none"
    /\ pc' = "send_disc_timeout"
    /\ UNCHANGED <<err, msg, connTime, ending, chan, senders, rxAlive, nsent, nrecv,
                   lastEvt, prevEvt, sleeps, elapsed, duration, attemptsLeft, nmsg,
                   msgBudget>>
    /\ UNCHANGED <<dec, sess, config, connConfig>>

\* ----------------------------------------------------------------- run_once

\* Ok(Ok(conn)) => tx.send(ConnectionState(Connected)).await?
SendConnected ==
    /\ pc = "send_connected"
    /\ \/ SendFails
       \/ /\ Publish(Connected)
          /\ pc' = "next_message"
          /\ UNCHANGED <<attempt, err, msg, conn, connTime, ending, senders, sleeps,
                         elapsed, duration, attemptsLeft, nmsg, msgBudget>>
    /\ UNCHANGED <<rxAlive, nrecv>>
    /\ UNCHANGED <<dec, sess, config, connConfig>>

\* Ok(Err(e)) => tx.send(StreamEvent::Error(e)).await?
SendErrorConnect ==
    /\ pc = "send_error_connect"
    /\ \/ SendFails
       \/ /\ Publish(ErrorEvent(err))
          /\ pc' = "send_disc_connect"
          /\ UNCHANGED <<attempt, err, msg, conn, connTime, ending, senders, sleeps,
                         elapsed, duration, attemptsLeft, nmsg, msgBudget>>
    /\ UNCHANGED <<rxAlive, nrecv>>
    /\ UNCHANGED <<dec, sess, config, connConfig>>

\* Mutant: a failed connect is fatal, run returns after the Disconnected event.
SendDisconnectedConnectGivesUp ==
    /\ pc = "send_disc_connect"
    /\ \/ SendFails
       \/ /\ Publish(Disconnected)
          /\ pc' = "done"
          /\ senders' = 0
          /\ UNCHANGED <<attempt, err, msg, conn, connTime, ending, sleeps, elapsed,
                         duration, attemptsLeft, nmsg, msgBudget>>
    /\ UNCHANGED <<rxAlive, nrecv>>
    /\ UNCHANGED <<dec, sess, config, connConfig>>

\* Ok(Err(e)) => tx.send(ConnectionState(Disconnected)).await?
SendDisconnectedConnect ==
    /\ pc = "send_disc_connect"
    /\ \/ SendFails
       \/ /\ Publish(Disconnected)
          /\ pc' = "sleep_cooldown"
          /\ UNCHANGED <<attempt, err, msg, conn, connTime, ending, senders, sleeps,
                         elapsed, duration, attemptsLeft, nmsg, msgBudget>>
    /\ UNCHANGED <<rxAlive, nrecv>>
    /\ UNCHANGED <<dec, sess, config, connConfig>>

\* Ok(Err(e)) => tokio::time::sleep(Duration::from_secs(duration)).await; return Ok(())
SleepCooldown ==
    /\ pc = "sleep_cooldown"
    /\ Sleep(duration)
    /\ senders' = 1
    /\ pc' = "sleep_floor"
    /\ UNCHANGED <<attempt, err, msg, conn, connTime, ending, chan, rxAlive, nsent,
                   nrecv, lastEvt, prevEvt, duration, attemptsLeft, nmsg, msgBudget>>
    /\ UNCHANGED <<dec, sess, config, connConfig>>

\* Err(_) => tx.send(ConnectionState(Disconnected)).await?; return Ok(())
SendDisconnectedTimeout ==
    /\ pc = "send_disc_timeout"
    /\ \/ SendFails
       \/ /\ Publish(Disconnected)
          /\ senders' = 1
          /\ pc' = "sleep_floor"
          /\ UNCHANGED <<attempt, err, msg, conn, connTime, ending, sleeps, elapsed,
                         duration, attemptsLeft, nmsg, msgBudget>>
    /\ UNCHANGED <<rxAlive, nrecv>>
    /\ UNCHANGED <<dec, sess, config, connConfig>>

\* What self.client.next() can yield to next_message.
Units ==
    {"closed", "error", "bulletin", "undecodable_message", "iq_unparsable", "iq_get",
     "iq_set", "iq_result", "iq_error", "presence", "other"}

\* conn.next_message().await: one element is read and handled
NextMessage ==
    /\ pc = "next_message"
    /\ \E u \in Units :
        CASE u = "closed" ->
                /\ err' = "StreamEnded"
                /\ pc' = "send_error_session"
                /\ UNCHANGED <<msg, nmsg>>
          [] u = "error" ->
                /\ err' = "Network"
                /\ pc' = "send_error_session"
                /\ UNCHANGED <<msg, nmsg>>
          [] u = "iq_unparsable" ->
                /\ err' = "XmppParseError"
                /\ pc' = "send_error_session"
                /\ UNCHANGED <<msg, nmsg>>
          [] u = "bulletin" ->
                /\ nmsg < msgBudget
                /\ nmsg' = nmsg + 1
                /\ msg' = nmsg + 1
                /\ pc' = "send_message"
                /\ UNCHANGED err
          [] u \in {"iq_get", "iq_set"} ->
                /\ pc' = "iq_reply"
                /\ UNCHANGED <<err, msg, nmsg>>
          [] OTHER -> UNCHANGED <<pc, err, msg, nmsg>>
    /\ UNCHANGED <<attempt, conn, connTime, ending, chan, senders, rxAlive, nsent,
                   nrecv, lastEvt, prevEvt, sleeps, elapsed, duration, attemptsLeft,
                   msgBudget>>
    /\ UNCHANGED <<dec, sess, config, connConfig>>

\* handle_iq: self.client.send_stanza(stanza).await?
IqReply ==
    /\ pc = "iq_reply"
    /\ \/ /\ pc' = "next_message"
          /\ UNCHANGED err
       \/ /\ err' = "Network"
          /\ pc' = "send_error_session"
    /\ UNCHANGED <<attempt, msg, conn, connTime, ending, chan, senders, rxAlive, nsent,
                   nrecv, lastEvt, prevEvt, sleeps, elapsed, duration, attemptsLeft,
                   nmsg, msgBudget>>
    /\ UNCHANGED <<dec, sess, config, connConfig>>

\* Mutant: a Message that finds the buffer full is dropped, as with try_send.
SendMessageTrySend ==
    /\ pc = "send_message"
    /\ \/ SendFails
       \/ /\ Publish(MessageEvent(msg))
          /\ msg' = 0
          /\ pc' = "next_message"
          /\ UNCHANGED <<attempt, err, conn, connTime, ending, senders, sleeps,
                         elapsed, duration, attemptsLeft, nmsg, msgBudget>>
       \/ /\ rxAlive
          /\ ~HasCapacity
          /\ msg' = 0
          /\ pc' = "next_message"
          /\ UNCHANGED <<attempt, err, conn, connTime, ending, senders, sleeps,
                         elapsed, duration, attemptsLeft, nmsg, msgBudget, chan,
                         nsent, prevEvt, lastEvt>>
    /\ UNCHANGED <<rxAlive, nrecv>>
    /\ UNCHANGED <<dec, sess, config, connConfig>>

\* Mutant: the Message stays held after it was published.
SendMessageKeepsHeld ==
    /\ pc = "send_message"
    /\ \/ SendFails
       \/ /\ Publish(MessageEvent(msg))
          /\ UNCHANGED <<pc, msg, attempt, err, conn, connTime, ending, senders, sleeps,
                         elapsed, duration, attemptsLeft, nmsg, msgBudget>>
    /\ UNCHANGED <<rxAlive, nrecv>>
    /\ UNCHANGED <<dec, sess, config, connConfig>>

\* Ok(msg) => tx.send(StreamEvent::Message(msg)).await?
SendMessage ==
    /\ pc = "send_message"
    /\ \/ SendFails
       \/ /\ Publish(MessageEvent(msg))
          /\ msg' = 0
          /\ pc' = "next_message"
          /\ UNCHANGED <<attempt, err, conn, connTime, ending, senders, sleeps,
                         elapsed, duration, attemptsLeft, nmsg, msgBudget>>
    /\ UNCHANGED <<rxAlive, nrecv>>
    /\ UNCHANGED <<dec, sess, config, connConfig>>

\* Mutant: a failed session is reported without the Disconnected event.
SendErrorSessionNoDisconnected ==
    /\ pc = "send_error_session"
    /\ \/ SendFails
       \/ /\ Publish(ErrorEvent(err))
          /\ ending' = [ending EXCEPT !.leave = @ + 1]
          /\ conn' = "none"
          /\ senders' = 1
          /\ pc' = "sleep_floor"
          /\ UNCHANGED <<attempt, err, msg, connTime, sleeps, elapsed, duration,
                         attemptsLeft, nmsg, msgBudget>>
    /\ UNCHANGED <<rxAlive, nrecv>>
    /\ UNCHANGED <<dec, sess, config, connConfig>>

\* Mutant: after the Error the loop goes on reading from the same Connection.
SendErrorSessionRetries ==
    /\ pc = "send_error_session"
    /\ \/ SendFails
       \/ /\ Publish(ErrorEvent(err))
          /\ pc' = "next_message"
          /\ UNCHANGED <<attempt, err, msg, conn, connTime, ending, senders, sleeps,
                         elapsed, duration, attemptsLeft, nmsg, msgBudget>>
    /\ UNCHANGED <<rxAlive, nrecv>>
    /\ UNCHANGED <<dec, sess, config, connConfig>>

\* Err(e) => tx.send(StreamEvent::Error(e)).await?
SendErrorSession ==
    /\ pc = "send_error_session"
    /\ \/ SendFails
       \/ /\ Publish(ErrorEvent(err))
          /\ pc' = "send_disc_session"
          /\ UNCHANGED <<attempt, err, msg, conn, connTime, ending, senders, sleeps,
                         elapsed, duration, attemptsLeft, nmsg, msgBudget>>
    /\ UNCHANGED <<rxAlive, nrecv>>
    /\ UNCHANGED <<dec, sess, config, connConfig>>

\* Mutant: the failed Connection is dropped, conn.end() is never spawned.
SendDisconnectedSessionDropsConn ==
    /\ pc = "send_disc_session"
    /\ \/ SendFails
       \/ /\ Publish(Disconnected)
          /\ conn' = "none"
          /\ senders' = 1
          /\ pc' = "sleep_floor"
          /\ UNCHANGED <<attempt, err, msg, connTime, ending, sleeps, elapsed,
                         duration, attemptsLeft, nmsg, msgBudget>>
    /\ UNCHANGED <<rxAlive, nrecv>>
    /\ UNCHANGED <<dec, sess, config, connConfig>>

\* Err(e) => tx.send(ConnectionState(Disconnected)).await?;
\*           tokio::task::spawn_local(conn.end()); return Ok(())
SendDisconnectedSession ==
    /\ pc = "send_disc_session"
    /\ \/ SendFails
       \/ /\ Publish(Disconnected)
          /\ ending' = [ending EXCEPT !.leave = @ + 1]
          /\ conn' = "none"
          /\ senders' = 1
          /\ pc' = "sleep_floor"
          /\ UNCHANGED <<attempt, err, msg, connTime, sleeps, elapsed, duration,
                         attemptsLeft, nmsg, msgBudget>>
    /\ UNCHANGED <<rxAlive, nrecv>>
    /\ UNCHANGED <<dec, sess, config, connConfig>>

\* ---------------------------------------------------------- Connection::end

\* Mutant: when the leave cannot be sent the teardown stops there.
EndSendLeaveFatal ==
    /\ ending.leave > 0
    /\ \E ok \in BOOLEAN :
        ending' = [leave |-> ending.leave - 1,
                   close |-> IF ok THEN ending.close + 1 ELSE ending.close]
    /\ UNCHANGED <<pc, attempt, err, msg, conn, connTime, chan, senders, rxAlive,
                   nsent, nrecv, lastEvt, prevEvt, sleeps, elapsed, duration,
                   attemptsLeft, nmsg, msgBudget>>
    /\ UNCHANGED <<dec, sess, config, connConfig>>

\* client.send_stanza(self.leave_message).await.ok()
EndSendLeave ==
    /\ ending.leave > 0
    /\ \E ok \in BOOLEAN :
        ending' = [leave |-> ending.leave - 1, close |-> ending.close + 1]
    /\ UNCHANGED <<pc, attempt, err, msg, conn, connTime, chan, senders, rxAlive,
                   nsent, nrecv, lastEvt, prevEvt, sleeps, elapsed, duration,
                   attemptsLeft, nmsg, msgBudget>>
    /\ UNCHANGED <<dec, sess, config, connConfig>>

\* client.end().await.ok(); dropping client closes the connection
EndClose ==
    /\ ending.close > 0
    /\ \E ok \in BOOLEAN :
        ending' = [ending EXCEPT !.close = @ - 1]
    /\ UNCHANGED <<pc, attempt, err, msg, conn, connTime, chan, senders, rxAlive,
                   nsent, nrecv, lastEvt, prevEvt, sleeps, elapsed, duration,
                   attemptsLeft, nmsg, msgBudget>>
    /\ UNCHANGED <<dec, sess, config, connConfig>>

\* ----------------------------------------------------------------- consumer

\* Stream::poll_next: Pin::new(&mut self.rx).poll_recv(cx) yields Some(event)
Recv ==
    /\ rxAlive
    /\ chan # <<>>
    /\ chan' = Tail(chan)
    /\ nrecv' = nrecv + 1
    /\ UNCHANGED <<pc, attempt, err, msg, conn, connTime, ending, senders, rxAlive,
                   nsent, lastEvt, prevEvt, sleeps, elapsed, duration, attemptsLeft,
                   nmsg, msgBudget>>
    /\ UNCHANGED <<dec, sess, config, connConfig>>

\* The consumer drops the Stream: the Receiver closes and its buffer is freed.
DropStream ==
    /\ rxAlive
    /\ rxAlive' = FALSE
    /\ chan' = <<>>
    /\ UNCHANGED <<pc, attempt, err, msg, conn, connTime, ending, senders, nsent,
                   nrecv, lastEvt, prevEvt, sleeps, elapsed, duration, attemptsLeft,
                   nmsg, msgBudget>>
    /\ UNCHANGED <<dec, sess, config, connConfig>>

\* ------------------------------------------------------------------ Decoder

\* Characters a payload text is made of here: the newline, a digit, a sign and
\* a letter.
NL == "\n"

Alphabet == {NL, "1", "+", "a"}

Digits == {"0", "1", "2", "3", "4", "5", "6", "7", "8", "9"}

\* An attribute, element or Option that is not there.
Absent == "<absent>"

\* Option<u32>::None
NoNumber == -1

\* chrono::DateTime<FixedOffset>, and the value standing for no DateTime.
NoTime == [local |-> "-", offset |-> 0]

\* chrono::DateTime::parse_from_rfc3339: the texts it accepts, with their value.
ParseRfc3339(v) ==
    CASE v = "2022-02-04T02:54:00Z" -> [local |-> "2022-02-04T02:54:00", offset |-> 0]
      [] v = "2022-02-04T02:55:11.810Z" -> [local |-> "2022-02-04T02:55:11.810", offset |-> 0]
      [] OTHER -> NoTime

\* str::matches(pat).count(): the matches found left to right, none overlapping.
RECURSIVE MatchCount(_, _)
MatchCount(t, pat) ==
    IF Len(t) < Len(pat) THEN 0
    ELSE IF SubSeq(t, 1, Len(pat)) = pat
         THEN 1 + MatchCount(SubSeq(t, Len(pat) + 1, Len(t)), pat)
         ELSE MatchCount(Tail(t), pat)

\* str::replace(pat, to): every match found left to right is replaced.
RECURSIVE Replace(_, _, _)
Replace(t, pat, to) ==
    IF Len(t) < Len(pat) THEN t
    ELSE IF SubSeq(t, 1, Len(pat)) = pat
         THEN to \o Replace(SubSeq(t, Len(pat) + 1, Len(t)), pat, to)
         ELSE <<Head(t)>> \o Replace(Tail(t), pat, to)

\* Mutant: the doubled newlines are collapsed until none is left.
RECURSIVE CollapseAll(_)
CollapseAll(t) ==
    IF MatchCount(t, <<NL, NL>>) = 0 THEN t
    ELSE CollapseAll(Replace(t, <<NL, NL>>, <<NL>>))

NormalizeRecursively(t) ==
    IF MatchCount(t, <<NL>>) = MatchCount(t, <<NL, NL>>) * 2
    THEN CollapseAll(t)
    ELSE t

\* Mutant: the doubled newlines are collapsed whatever the counts say.
NormalizeAlways(t) == Replace(t, <<NL, NL>>, <<NL>>)

\* Mutant: the text is never touched.
NormalizeNever(t) == t

\* if message.matches("\n").count() == message.matches("\n\n").count() * 2
\*     { message.replace("\n\n", "\n") } else { message }
Normalize(t) ==
    IF MatchCount(t, <<NL>>) = MatchCount(t, <<NL, NL>>) * 2
    THEN Replace(t, <<NL, NL>>, <<NL>>)
    ELSE t

\* The index of the first c in t, 0 when there is none.
RECURSIVE Find(_, _)
Find(t, c) ==
    IF t = <<>> THEN 0
    ELSE IF Head(t) = c THEN 1
    ELSE LET i == Find(Tail(t), c) IN IF i = 0 THEN 0 ELSE i + 1

\* message.splitn(3, '\n'): at most three parts, the last one the remainder.
SplitN3(t) ==
    LET i == Find(t, NL)
        rest == SubSeq(t, i + 1, Len(t))
        j == Find(rest, NL)
    IN  IF i = 0 THEN <<t>>
        ELSE IF j = 0 THEN <<SubSeq(t, 1, i - 1), rest>>
        ELSE <<SubSeq(t, 1, i - 1), SubSeq(rest, 1, j - 1), SubSeq(rest, j + 1, Len(rest))>>

DigitValue(c) ==
    CASE c = "0" -> 0 [] c = "1" -> 1 [] c = "2" -> 2 [] c = "3" -> 3 [] c = "4" -> 4
      [] c = "5" -> 5 [] c = "6" -> 6 [] c = "7" -> 7 [] c = "8" -> 8 [] c = "9" -> 9

RECURSIVE DecimalValue(_)
DecimalValue(ds) ==
    IF ds = <<>> THEN 0
    ELSE DecimalValue(SubSeq(ds, 1, Len(ds) - 1)) * 10 + DigitValue(ds[Len(ds)])

\* Mutant: a sign is no part of a number.
ParseU32DigitsOnly(line) ==
    IF line # <<>> /\ \A k \in 1..Len(line) : line[k] \in Digits
    THEN DecimalValue(line)
    ELSE NoNumber

\* str::parse::<u32>(): one optional '+', then one or more decimal digits.  A
\* line of the lengths used here stays below u32::MAX, so the checked
\* arithmetic of parse never overflows.
ParseU32(line) ==
    LET ds == IF line # <<>> /\ Head(line) = "+" THEN Tail(line) ELSE line
    IN  IF ds # <<>> /\ \A k \in 1..Len(ds) : ds[k] \in Digits
        THEN DecimalValue(ds)
        ELSE NoNumber

\* Mutant: the number is taken whenever the second line is one.
SequenceNumberAnyFirstLine(t) ==
    LET parts == SplitN3(t)
        number == IF Len(parts) >= 2 THEN ParseU32(parts[2]) ELSE NoNumber
    IN  IF Len(parts) = 3 /\ number # NoNumber
        THEN [ldm_sequence_number |-> number, message |-> parts[3]]
        ELSE [ldm_sequence_number |-> NoNumber, message |-> t]

\* match (i.next(), i.next().and_then(|s| s.parse().ok()), i.next()) {
\*     (Some(""), Some(n), Some(rest)) => (Some(n), rest.into()), _ => (None, message) }
SequenceNumber(t) ==
    LET parts == SplitN3(t)
        number == IF Len(parts) >= 2 THEN ParseU32(parts[2]) ELSE NoNumber
    IN  IF Len(parts) = 3 /\ parts[1] = <<>> /\ number # NoNumber
        THEN [ldm_sequence_number |-> number, message |-> parts[3]]
        ELSE [ldm_sequence_number |-> NoNumber, message |-> t]

\* xmpp_parsers::message::Message as far as try_from reads it: its type, the
\* stamp of its <delay/>, whether it has an <x xmlns="nwws-oi"/>, the five
\* attributes and the text of that element.  subject and body are not read.
MessageStanzas(texts) ==
    [type_ : {"groupchat", "normal"},
     subject : BOOLEAN,
     body : BOOLEAN,
     delay : {Absent, "yesterday", "2022-02-04T02:55:11.810Z"},
     oi : BOOLEAN,
     awipsid : {Absent, "", "RRMLMK"},
     cccc : {Absent, "KLMK"},
     id : {Absent, "14425.25117"},
     issue : {Absent, "yesterday", "2022-02-04T02:54:00Z"},
     ttaaii : {Absent, "SRUS43"},
     text : texts]

\* Err(value): the unit is no Message.
Rejected ==
    [ok |-> FALSE, ttaaii |-> Absent, cccc |-> Absent, awips_id |-> Absent,
     issue |-> NoTime, id |-> Absent, delay_stamp |-> NoTime,
     ldm_sequence_number |-> NoNumber, message |-> <<>>]

\* Mutant: the <x/> element is enough, its attributes may be missing.
TryFromPartial(value) ==
    IF value.type_ # "groupchat" \/ ~value.oi THEN Rejected
    ELSE LET parsed == SequenceNumber(Normalize(value.text))
         IN  [ok |-> TRUE,
              ttaaii |-> value.ttaaii,
              cccc |-> value.cccc,
              awips_id |-> IF value.awipsid = "" THEN Absent ELSE value.awipsid,
              issue |-> ParseRfc3339(value.issue),
              id |-> value.id,
              delay_stamp |-> ParseRfc3339(value.delay),
              ldm_sequence_number |-> parsed.ldm_sequence_number,
              message |-> parsed.message]

\* Mutant: the message type is not looked at.
TryFromAnyType(value) ==
    IF ~value.oi THEN Rejected
    ELSE IF \/ Absent \in {value.awipsid, value.cccc, value.id, value.issue, value.ttaaii}
            \/ ParseRfc3339(value.issue) = NoTime
    THEN Rejected
    ELSE LET parsed == SequenceNumber(Normalize(value.text))
         IN  [ok |-> TRUE,
              ttaaii |-> value.ttaaii,
              cccc |-> value.cccc,
              awips_id |-> IF value.awipsid = "" THEN Absent ELSE value.awipsid,
              issue |-> ParseRfc3339(value.issue),
              id |-> value.id,
              delay_stamp |-> ParseRfc3339(value.delay),
              ldm_sequence_number |-> parsed.ldm_sequence_number,
              message |-> parsed.message]

\* Mutant: the sequence number is looked for in the text as it came, the
\* newlines are undoubled afterwards.
TryFromSequenceFirst(value) ==
    IF value.type_ # "groupchat" THEN Rejected
    ELSE IF ~value.oi THEN Rejected
    ELSE IF \/ Absent \in {value.awipsid, value.cccc, value.id, value.issue, value.ttaaii}
            \/ ParseRfc3339(value.issue) = NoTime
    THEN Rejected
    ELSE LET parsed == SequenceNumber(value.text)
         IN  [ok |-> TRUE,
              ttaaii |-> value.ttaaii,
              cccc |-> value.cccc,
              awips_id |-> IF value.awipsid = "" THEN Absent ELSE value.awipsid,
              issue |-> ParseRfc3339(value.issue),
              id |-> value.id,
              delay_stamp |-> ParseRfc3339(value.delay),
              ldm_sequence_number |-> parsed.ldm_sequence_number,
              message |-> Normalize(parsed.message)]

\* impl TryFrom<xmpp_parsers::message::Message> for Message
TryFrom(value) ==
    IF value.type_ # "groupchat" THEN Rejected
    ELSE IF ~value.oi THEN Rejected
    ELSE IF \/ Absent \in {value.awipsid, value.cccc, value.id, value.issue, value.ttaaii}
            \/ ParseRfc3339(value.issue) = NoTime
    THEN Rejected
    ELSE LET parsed == SequenceNumber(Normalize(value.text))
         IN  [ok |-> TRUE,
              ttaaii |-> value.ttaaii,
              cccc |-> value.cccc,
              awips_id |-> IF value.awipsid = "" THEN Absent ELSE value.awipsid,
              issue |-> ParseRfc3339(value.issue),
              id |-> value.id,
              delay_stamp |-> ParseRfc3339(value.delay),
              ldm_sequence_number |-> parsed.ldm_sequence_number,
              message |-> parsed.message]

\* A stanza with nothing in it.
NoStanza ==
    [type_ |-> "normal", subject |-> FALSE, body |-> FALSE, delay |-> Absent,
     oi |-> FALSE, awipsid |-> Absent, cccc |-> Absent, id |-> Absent,
     issue |-> Absent, ttaaii |-> Absent, text |-> <<>>]

\* No Message::try_from is under way.
DecoderIdle ==
    [state |-> "idle", value |-> NoStanza, message |-> <<>>, result |-> Rejected]

\* Message::try_from(value) runs and returns; `message` is its local after the
\* newline normalization (the text itself when try_from returned before it).
Decode ==
    /\ dec.state = "called"
    /\ dec' = [dec EXCEPT
                !.state = "returned",
                !.message = IF dec.value.type_ = "groupchat" /\ dec.value.oi
                            THEN Normalize(dec.value.text)
                            ELSE dec.value.text,
                !.result = TryFrom(dec.value)]
    /\ UNCHANGED <<pc, attempt, err, msg, conn, connTime, ending, chan, senders,
                   rxAlive, nsent, nrecv, lastEvt, prevEvt, sleeps, elapsed, duration,
                   attemptsLeft, nmsg, msgBudget, sess, config, connConfig>>

\* ------------------------------------------------------------------ Session

\* The JID the server bound this client to, the occupant JID it asks for in the
\* room (channel.jid(nickname)), and another occupant of the room.
BoundJid == "user@nwws-oi.weather.gov/resource"

ChannelJid == "nwws@conference.nwws-oi.weather.gov/user/resource"

OtherOccupantJid == "nwws@conference.nwws-oi.weather.gov/other/resource"

ServerJid == "nwws-oi.weather.gov"

\* Presence::new(Type::None).with_from(jid).with_to(channel_jid)
\*     .with_payloads(vec![Muc { history: Some(History { seconds: Some(300), .. }) }])
JoinMessage ==
    [stanza |-> "presence", type |-> "none", id |-> Absent, from |-> BoundJid,
     to |-> ChannelJid, payload |-> "muc history seconds=300"]

\* What the transport yields on one read: the stream's end, an error, or an
\* element.  Of an element: its name, whether xmpp_parsers parses it as the
\* stanza of that name, and what the code reads of the parsed stanza.
NoUnit ==
    [kind |-> "item", stanza |-> "other", parses |-> FALSE, msg |-> NoStanza,
     iqType |-> Absent, id |-> Absent, from |-> Absent, to |-> Absent,
     mucUser |-> FALSE, selfPresence |-> FALSE]

Closed == [NoUnit EXCEPT !.kind = "closed"]

TransportError == [NoUnit EXCEPT !.kind = "error"]

\* A well-formed product, as in the test parse_awips.
BulletinStanza ==
    [NoStanza EXCEPT !.type_ = "groupchat", !.body = TRUE, !.oi = TRUE,
                     !.awipsid = "RRMLMK", !.cccc = "KLMK", !.id = "14425.25117",
                     !.issue = "2022-02-04T02:54:00Z", !.ttaaii = "SRUS43",
                     !.text = <<NL, NL, "1", NL, NL, "a", NL, NL>>]

Bulletin ==
    [NoUnit EXCEPT !.stanza = "message", !.parses = TRUE, !.from = ChannelJid,
                   !.to = BoundJid, !.msg = BulletinStanza]

\* The room's subject, as in the test parse_banner.
SubjectOnly ==
    [NoUnit EXCEPT !.stanza = "message", !.parses = TRUE, !.to = BoundJid,
                   !.msg = [NoStanza EXCEPT !.type_ = "groupchat", !.subject = TRUE,
                                            !.delay = "2022-02-04T02:55:11.810Z"]]

\* A <message/> xmpp_parsers does not take for a message stanza.
MalformedMessage ==
    [NoUnit EXCEPT !.stanza = "message", !.msg = BulletinStanza]

IqOfType(t, id) ==
    [NoUnit EXCEPT !.stanza = "iq", !.parses = TRUE, !.iqType = t, !.id = id,
                   !.from = ServerJid, !.to = BoundJid]

IqUnparsable == [NoUnit EXCEPT !.stanza = "iq"]

PlainPresence ==
    [NoUnit EXCEPT !.stanza = "presence", !.parses = TRUE, !.from = OtherOccupantJid,
                   !.to = BoundJid]

\* The presence of another occupant, as the room sends it to everybody.
OccupantPresence == [PlainPresence EXCEPT !.mucUser = TRUE]

\* A presence whose MucUser payload has the status 110, from the occupant JID
\* this client asked for, and one from another occupant JID.
SelfPresence ==
    [PlainPresence EXCEPT !.mucUser = TRUE, !.selfPresence = TRUE, !.from = ChannelJid]

SelfPresenceOfOther == [SelfPresence EXCEPT !.from = OtherOccupantJid]

\* What client.try_next() yields while new() waits for the join.
JoinUnits ==
    {Closed, TransportError, PlainPresence, OccupantPresence, SelfPresence,
     SelfPresenceOfOther, Bulletin, IqOfType("get", "ping-1")}

\* What client.next() yields to next_message().
NextUnits ==
    {Closed, TransportError, SubjectOnly, MalformedMessage, Bulletin,
     IqOfType("get", "ping-1"), IqOfType("set", "roster-2"), IqOfType("result", "r-3"),
     IqOfType("error", "e-4"), IqUnparsable, PlainPresence, NoUnit}

\* A Connection::new() that has just been called: nothing sent, nothing read.
\* read is every unit the transport yielded so far, joinedAt the index of the
\* unit that ended 'wait_for_join, returned the Ok results of next_message().
SessionStart ==
    [pc |-> "new", cause |-> "none", err |-> "none", failedIn |-> "none",
     outbox |-> <<>>, read |-> <<>>, joinedAt |-> 0, calls |-> 0,
     returned |-> <<>>, sendFailed |-> FALSE]

\* No Connection is driven by a caller.
SessionIdle == [SessionStart EXCEPT !.pc = "idle"]

\* Only the Connection driven by its caller moves.
OnlySession ==
    UNCHANGED <<pc, attempt, err, msg, conn, connTime, ending, chan, senders,
                rxAlive, nsent, nrecv, lastEvt, prevEvt, sleeps, elapsed, duration,
                attemptsLeft, nmsg, msgBudget, dec, config, connConfig>>

\* A call that returns Err(e).
SessionFails(s, e, where) == [s EXCEPT !.pc = "failed", !.err = e, !.failedIn = where]

\* tokio_xmpp::SimpleClient::new(&jid, password).await.map_err(..)?
SessionHandshake ==
    /\ sess.pc = "new"
    /\ \/ sess' = [sess EXCEPT !.pc = "send_join"]
       \/ \E xe \in HandshakeErrors :
            sess' = SessionFails([sess EXCEPT !.cause = xe], ClassifyHandshake(xe), "handshake")
    /\ OnlySession

\* client.send_stanza(join_message).await?
SessionSendJoin ==
    /\ sess.pc = "send_join"
    /\ \/ sess' = [sess EXCEPT !.pc = "wait_for_join", !.outbox = Append(@, JoinMessage)]
       \/ sess' = SessionFails([sess EXCEPT !.sendFailed = TRUE], "Network", "send_join")
    /\ OnlySession

\* One turn of 'wait_for_join; Ok(Self { .. }) after the loop.
SessionWaitForJoin ==
    /\ sess.pc = "wait_for_join"
    /\ Len(sess.read) < MaxUnits
    /\ \E item \in JoinUnits :
        LET got == [sess EXCEPT !.read = Append(@, item)]
        IN  sess' = CASE item.kind = "error" -> SessionFails(got, "Network", "wait_for_join")
                      [] item.kind = "closed" ->
                            SessionFails(got, "StreamEnded", "wait_for_join")
                      [] IsSelfPresence(item) ->
                            [got EXCEPT !.pc = "ready", !.joinedAt = Len(got.read)]
                      [] OTHER -> got
    /\ OnlySession

\* The caller calls next_message() on the Connection it holds.
SessionCall ==
    /\ sess.pc = "ready"
    /\ sess' = [sess EXCEPT !.pc = "next_message", !.calls = @ + 1]
    /\ OnlySession

\* impl TryFrom<xmpp_parsers::Element> for Message
TryFromElement(element) ==
    IF element.parses THEN TryFrom(element.msg) ELSE Rejected

\* Mutant: whatever message arrives is handed to the caller.
HandleMessageReturnsAny(s, element) ==
    [s EXCEPT !.pc = "ready",
              !.returned = Append(@, [at |-> Len(s.read), msg |-> TryFromElement(element)])]

\* if let Ok(msg) = Message::try_from(element.clone()) { return Ok(msg); }
HandleMessage(s, element) ==
    IF TryFromElement(element).ok
    THEN [s EXCEPT !.pc = "ready",
                   !.returned = Append(@, [at |-> Len(s.read),
                                           msg |-> TryFromElement(element)])]
    ELSE s

\* Mutant: the reply keeps the addresses of the request.
ServiceUnavailableUnswapped(iq) ==
    [stanza |-> "iq", type |-> "error", id |-> iq.id, from |-> iq.from, to |-> iq.to,
     payload |-> "cancel service-unavailable"]

\* Iq { from: iq.to, to: iq.from, id: iq.id, payload: IqType::Error(StanzaError {
\*     type_: Cancel, defined_condition: ServiceUnavailable, .. }) }
ServiceUnavailable(iq) ==
    [stanza |-> "iq", type |-> "error", id |-> iq.id, from |-> iq.to, to |-> iq.from,
     payload |-> "cancel service-unavailable"]

\* handle_iq(iq).await?, the send of the reply succeeding or not.
HandleIq(s, iq, sent) ==
    IF iq.iqType \in {"get", "set"}
    THEN IF sent
         THEN [s EXCEPT !.outbox = Append(@, ServiceUnavailable(iq))]
         ELSE SessionFails([s EXCEPT !.sendFailed = TRUE], "Network", "next_message")
    ELSE s

\* One turn of the loop of next_message().
SessionNextMessage ==
    /\ sess.pc = "next_message"
    /\ Len(sess.read) < MaxUnits
    /\ \E element \in NextUnits, sent \in BOOLEAN :
        LET got == [sess EXCEPT !.read = Append(@, element)]
        IN  sess' = CASE element.kind = "closed" ->
                            SessionFails(got, "StreamEnded", "next_message")
                      [] element.kind = "error" ->
                            SessionFails(got, "Network", "next_message")
                      [] element.stanza = "message" -> HandleMessage(got, element)
                      [] element.stanza = "iq" ->
                            IF element.parses
                            THEN HandleIq(got, element, sent)
                            ELSE SessionFails(got, "XmppParseError", "next_message")
                      [] OTHER -> got
    /\ OnlySession

\* ----------------------------------------------------------- specifications

\* The state after Stream::new: the task `run` is spawned on its own thread.
InitWith(attempts, messages) ==
    /\ pc = "send_connecting"
    /\ attempt = "-"
    /\ err = "-"
    /\ msg = 0
    /\ conn = "none"
    /\ connTime = 0
    /\ ending = [leave |-> 0, close |-> 0]
    /\ chan = <<>>
    /\ senders = 1
    /\ rxAlive = TRUE
    /\ nsent = 0
    /\ nrecv = 0
    /\ lastEvt = NoEvent
    /\ prevEvt = NoEvent
    /\ sleeps = <<>>
    /\ elapsed = 0
    /\ duration = 0
    /\ attemptsLeft = attempts
    /\ nmsg = 0
    /\ msgBudget = messages
    /\ config = TheConfig
    /\ connConfig = NoConfig

Init ==
    /\ InitWith(MaxAttempts, MaxMessages)
    /\ dec = DecoderIdle
    /\ sess = SessionIdle

InitBurst ==
    /\ InitWith(1, BurstMessages)
    /\ dec = DecoderIdle
    /\ sess = SessionIdle

\* Every text of at most n characters.
Texts(n) == UNION {[1..k -> Alphabet] : k \in 0..n}

\* The stanzas handed to Message::try_from: every combination of what it
\* reads with three texts, and a well-formed bulletin with every text.
DecoderInputs ==
    MessageStanzas({<<>>, <<NL, "1", NL, "a">>, BulletinStanza.text})
    \cup {[NoStanza EXCEPT !.type_ = "groupchat", !.body = TRUE, !.oi = TRUE,
                           !.awipsid = "RRMLMK", !.cccc = "KLMK",
                           !.id = "14425.25117", !.issue = "2022-02-04T02:54:00Z",
                           !.ttaaii = "SRUS43", !.text = t] : t \in Texts(MaxBody)}

\* Message::try_from is called on one stanza; no Stream exists.
InitDecoder ==
    /\ InitWith(0, 0)
    /\ dec \in {[DecoderIdle EXCEPT !.state = "called", !.value = v] : v \in DecoderInputs}
    /\ sess = SessionIdle

NextDecoder == Decode

\* A caller has called Connection::new(); no Stream exists.
InitSession ==
    /\ InitWith(0, 0)
    /\ dec = DecoderIdle
    /\ sess = SessionStart

NextSession ==
    \/ SessionHandshake
    \/ SessionSendJoin
    \/ SessionWaitForJoin
    \/ SessionCall
    \/ SessionNextMessage

Next ==
    \/ SendConnecting
    \/ Handshake
    \/ SendJoin
    \/ WaitForJoin
    \/ ConnectStalls
    \/ ConnectTimedOut
    \/ SendConnected
    \/ SendErrorConnect
    \/ SendDisconnectedConnect
    \/ SleepCooldown
    \/ SendDisconnectedTimeout
    \/ NextMessage
    \/ IqReply
    \/ SendMessage
    \/ SendErrorSession
    \/ SendDisconnectedSession
    \/ SleepFloor
    \/ EndSendLeave
    \/ EndClose
    \/ Recv
    \/ DropStream

Spec == Init /\ [][Next]_vars

SpecBurst == InitBurst /\ [][Next]_vars

SpecDecoder == InitDecoder /\ [][NextDecoder]_vars

SpecSession == InitSession /\ [][NextSession]_vars

\* The scheduling the single-threaded runtime gives the task `run`: a sleep
\* that is due returns, and a send with a free slot (or a closed channel)
\* completes.
\* Whether the loop goes on does not depend on how many products arrive: one
\* is enough for every step of it to be taken.
InitLive ==
    /\ InitWith(MaxAttempts, 1)
    /\ dec = DecoderIdle
    /\ sess = SessionIdle

LiveSpec ==
    /\ InitLive
    /\ [][Next]_vars
    /\ WF_vars(SleepCooldown)
    /\ WF_vars(SleepFloor)
    /\ WF_vars(SendConnecting)

\* ------------------------------------------------------------------- claims

\* The await points of run and run_once that are a tx.send.
SendPcs ==
    {"send_connecting", "send_connected", "send_error_connect", "send_disc_connect",
     "send_disc_timeout", "send_message", "send_error_session", "send_disc_session"}

\* This step publishes event e on the channel.
Published(e) ==
    /\ nsent' = nsent + 1
    /\ chan' = Append(chan, [ev |-> e, seq |-> nsent'])

\* The events that may directly follow event p in the emitted sequence.
MayFollow(p, e) ==
    CASE p = NoEvent -> e = Connecting
      [] p = Connecting -> e = Connected \/ e.type = "Error" \/ e = Disconnected
      [] p = Connected -> e.type \in {"Message", "Error"}
      [] p.type = "Message" -> e.type \in {"Message", "Error"}
      [] p.type = "Error" -> e = Disconnected
      [] p = Disconnected -> e = Connecting
      [] OTHER -> FALSE

\* C1: the emitted sequence follows the grammar
\* (Connecting (Connected Bulletin* Error Disconnected | Error Disconnected |
\* Disconnected))*: every published event is one that may follow the event
\* published before it, and the first one is Connecting.
C1_EventGrammar ==
    [][nsent' # nsent =>
        /\ Published(lastEvt')
        /\ prevEvt' = lastEvt
        /\ MayFollow(lastEvt, lastEvt')]_vars

\* C1 witness: a whole connected attempt with a bulletin, then the next Connecting.
C1_Witness ==
    /\ lastEvt = Connecting
    /\ prevEvt = Disconnected
    /\ nmsg >= 1
    /\ nsent >= 6

\* The consumer's poll_recv would yield None: no Sender is left, nothing is buffered.
EndOfStream == senders = 0 /\ chan = <<>>

\* C2: while the consumer holds the stream the loop has not stopped and the
\* channel is not closed; the loop stops only in a send, and only after the
\* consumer dropped the stream.
C2_StreamNeverEnds ==
    /\ [](rxAlive => pc # "done" /\ senders > 0 /\ ~EndOfStream)
    /\ [][pc # "done" /\ pc' = "done" => ~rxAlive /\ pc \in SendPcs]_vars

\* C2 witness: a connect timeout behind it, the loop is about to retry.
C2_Witness ==
    /\ rxAlive
    /\ attempt = "timeout"
    /\ pc = "send_connecting"
    /\ senders = 1

\* C3: with the consumer still there, every Disconnected is followed by a new
\* Connecting (up to the attempts the model allows).
C3_RetriesForever ==
    [](lastEvt = Disconnected /\ rxAlive
        => <>(lastEvt = Connecting \/ ~rxAlive \/ attemptsLeft = 0))

\* C3 witness: a second attempt begins after a Disconnected.
C3_Witness ==
    /\ rxAlive
    /\ lastEvt = Connecting
    /\ prevEvt = Disconnected
    /\ attemptsLeft < MaxAttempts - 1

\* C4: after a connect that failed with Configuration or Credentials, the next
\* Connecting follows Error, Disconnected and at least 300 s of sleep.
C4_LongCooldown ==
    [][Published(Connecting) /\ attempt = "err" /\ err \in {"Configuration", "Credentials"} =>
        /\ prevEvt = ErrorEvent(err)
        /\ lastEvt = Disconnected
        /\ sleeps[1] = LongCooldown
        /\ elapsed >= LongCooldown]_vars

\* C4 witness: the cooldown after refused credentials is over.
C4_Witness ==
    /\ pc = "send_connecting"
    /\ attempt = "err"
    /\ err = "Credentials"
    /\ lastEvt = Disconnected
    /\ elapsed >= LongCooldown

\* C5: after a connect that timed out (75 s), the next Connecting follows a
\* Disconnected that directly follows the Connecting of the attempt (no Error),
\* and the only sleep is the 5 s floor.
C5_TimeoutNoError ==
    /\ [](attempt = "timeout" => connTime = ConnectTimeout /\ err = "-")
    /\ [][Published(Connecting) /\ attempt = "timeout" =>
            /\ prevEvt = Connecting
            /\ lastEvt = Disconnected
            /\ sleeps = <<MinimumDelay>>]_vars

\* C5 witness: a timed-out attempt has slept its floor.
C5_Witness ==
    /\ pc = "send_connecting"
    /\ attempt = "timeout"
    /\ lastEvt = Disconnected
    /\ sleeps = <<MinimumDelay>>

\* C6: after a connect that failed with any other error, the next Connecting
\* follows Error, Disconnected and the 10 s cooldown (then the floor), never
\* the 300 s one.
C6_ShortCooldown ==
    [][Published(Connecting) /\ attempt = "err" /\ err \notin {"Configuration", "Credentials"} =>
        /\ err \in ErrorKinds
        /\ prevEvt = ErrorEvent(err)
        /\ lastEvt = Disconnected
        /\ sleeps = <<ShortCooldown, MinimumDelay>>
        /\ duration = ShortCooldown]_vars

\* C6 witness: the cooldown after a stream that ended during the join is over.
C6_Witness ==
    /\ pc = "send_connecting"
    /\ attempt = "err"
    /\ err = "StreamEnded"
    /\ sleeps = <<ShortCooldown, MinimumDelay>>

\* C7: every Connecting but the first follows the Disconnected of the attempt
\* before it by at least 5 s: the last sleep is the 5 s floor, and it comes on
\* top of the cooldown of a failed connect.
C7_MinimumDelay ==
    [][Published(Connecting) /\ lastEvt # NoEvent =>
        /\ lastEvt = Disconnected
        /\ attempt \in {"ok", "err", "timeout"}
        /\ sleeps = (IF attempt = "err" THEN <<duration>> ELSE <<>>) \o <<MinimumDelay>>
        /\ attempt = "err" => duration \in {LongCooldown, ShortCooldown}
        /\ elapsed >= MinimumDelay + duration]_vars

\* C7 witness: cooldown and floor have both been slept after a failed connect.
C7_Witness ==
    /\ pc = "send_connecting"
    /\ attempt = "err"
    /\ sleeps = <<LongCooldown, MinimumDelay>>
    /\ elapsed >= LongCooldown + MinimumDelay

\* C8: the buffer never holds more than 32 events; with 32 buffered a pending
\* send does not complete; a publish takes a free slot and appends at the tail;
\* the consumer receives the events in the order they were published.
C8_BoundedFifo ==
    /\ [](Len(chan) <= ChannelCapacity)
    /\ [](rxAlive /\ pc = "send_message" /\ Len(chan) < ChannelCapacity
            => ENABLED SendMessage)
    /\ [][/\ Len(chan) = ChannelCapacity /\ rxAlive /\ pc \in SendPcs
                => pc' = pc /\ nsent' = nsent
          /\ nsent' # nsent
                => Len(chan) < ChannelCapacity /\ Published(lastEvt')
          /\ nrecv' # nrecv
                => /\ chan # <<>>
                   /\ Head(chan).seq = nrecv + 1
                   /\ nrecv' = nrecv + 1
                   /\ chan' = Tail(chan)]_vars

\* C8 witness: 32 events are buffered and the 33rd publish is pending.
C8_Witness ==
    /\ rxAlive
    /\ Len(chan) = ChannelCapacity
    /\ nrecv = 0
    /\ pc = "send_message"
    /\ msg = BurstMessages

\* C9: once the consumer dropped the stream nothing more is published, the
\* next send ends the loop and releases the Connection and both Senders, no
\* connect attempt starts, and the ended loop stays ended; once the teardowns
\* spawned before have run, nothing is left to run on the thread.
C9_DropTerminates ==
    /\ [](pc = "done" /\ ending.leave = 0 /\ ending.close = 0 => ~ENABLED Next)
    /\ [][/\ ~rxAlive => nsent' = nsent /\ chan' = chan /\ chan = <<>>
          /\ ~rxAlive /\ pc \in SendPcs /\ pc' # pc
                => pc' = "done" /\ conn' = "none" /\ senders' = 0
          /\ ~rxAlive /\ pc \notin ConnectingPcs => pc' \notin ConnectingPcs
          /\ pc = "done"
                => pc' = "done" /\ conn' = "none" /\ senders' = 0 /\ ~rxAlive]_vars

\* C9 witness: the loop ended in a send while it held a joined Connection.
C9_Witness ==
    /\ pc = "done"
    /\ ~rxAlive
    /\ attempt = "ok"
    /\ conn = "none"
    /\ senders = 0

\* C10: every error of Connection::new or next_message is published as the
\* Error event carrying it, directly before the Disconnected of the attempt;
\* after a failed session conn.end() is spawned and run_once returns with the
\* teardown still pending.
C10_ErrorsVisible ==
    [][/\ err' # err /\ err' # "-"
            => pc' \in {"send_error_connect", "send_error_session"}
       /\ nsent' # nsent /\ pc \in {"send_error_connect", "send_error_session"}
            => Published(ErrorEvent(err)) /\ err \in ErrorKinds
       /\ Published(Disconnected) /\ attempt # "timeout"
            => lastEvt = ErrorEvent(err) /\ err \in ErrorKinds
       /\ Published(Disconnected) /\ attempt = "ok"
            => /\ conn = "joined"
               /\ conn' = "none"
               /\ ending' = [ending EXCEPT !.leave = @ + 1]
               /\ pc' = "sleep_floor"]_vars

\* C10 witness: a failed session's Error and Disconnected are out and its
\* teardown has not yet sent the leave.
C10_Witness ==
    /\ attempt = "ok"
    /\ pc = "sleep_floor"
    /\ prevEvt = ErrorEvent("XmppParseError")
    /\ lastEvt = Disconnected
    /\ ending.leave >= 1

\* The units next_message() has read, the first of them at index 1.
ReadByNext == SubSeq(sess.read, sess.joinedAt + 1, Len(sess.read))

\* A unit the Decoder makes a Message of.
IsAcceptedMessage(u) == u.kind = "item" /\ u.stanza = "message" /\ TryFromElement(u).ok

\* The index of the last unit consumed before the k-th Ok of next_message().
ConsumedBefore(k) == IF k = 1 THEN sess.joinedAt ELSE sess.returned[k - 1].at

\* C11: every Ok of next_message() is the Message decoded from the first unit
\* after the ones consumed so far that the Decoder accepts; the units passed on
\* the way are none of them returned, and a rejected message, a presence or
\* another element never makes next_message() fail.
C11_NeverUndecodable ==
    /\ \A k \in 1..Len(sess.returned) :
        LET r == sess.returned[k]
        IN  /\ r.at \in (ConsumedBefore(k) + 1)..Len(sess.read)
            /\ IsAcceptedMessage(sess.read[r.at])
            /\ r.msg.ok
            /\ r.msg = TryFrom(sess.read[r.at].msg)
            /\ \A j \in (ConsumedBefore(k) + 1)..(r.at - 1) :
                    ~IsAcceptedMessage(sess.read[j])
    /\ \A j \in (ConsumedBefore(Len(sess.returned) + 1) + 1)..Len(sess.read) :
            sess.joinedAt > 0 => ~IsAcceptedMessage(sess.read[j])
    /\ Len(sess.returned) <= sess.calls
    /\ sess.pc = "ready" => Len(sess.returned) = sess.calls
    /\ sess.failedIn = "next_message" =>
            LET u == sess.read[Len(sess.read)]
            IN  u.kind \in {"closed", "error"} \/ u.stanza = "iq"

\* C11 witness: after the join the transport yielded the room's subject, a
\* product and a get request; the first call returned the product, the second
\* call answered the request and is waiting.
C11_Witness ==
    /\ sess.read = <<SelfPresence, SubjectOnly, Bulletin, IqOfType("get", "ping-1")>>
    /\ sess.calls = 2
    /\ sess.pc = "next_message"
    /\ Len(sess.returned) = 1
    /\ sess.returned[1].at = 3
    /\ sess.returned[1].msg.ldm_sequence_number = 1
    /\ sess.returned[1].msg.message = <<"a", NL>>
    /\ Len(sess.outbox) = 2

\* An iq of type get or set.
IsRequest(u) == u.kind = "item" /\ u.stanza = "iq" /\ u.parses /\ u.iqType \in {"get", "set"}

\* One turn of next_message() has read an iq and has not failed on it.
IqHandled ==
    /\ sess.pc = "next_message"
    /\ Len(sess'.read) = Len(sess.read) + 1
    /\ sess'.read[Len(sess'.read)].stanza = "iq"
    /\ sess'.err = "none"

\* C12: the stanzas sent after the join are, in order, one reply for each get
\* or set iq next_message() has read: of type error, with the id of the
\* request, its from and to swapped, and the condition service-unavailable
\* (the last request has none when sending it failed).  An iq of type result
\* or error gets none.  No iq is returned, and next_message() goes on reading.
C12_ServiceUnavailable ==
    /\ [](sess.joinedAt > 0 =>
            LET requests == SelectSeq(ReadByNext, IsRequest)
                replies == Tail(sess.outbox)
            IN  /\ Len(replies) = Len(requests) - (IF sess.sendFailed THEN 1 ELSE 0)
                /\ \A k \in 1..Len(replies) :
                    /\ replies[k].stanza = "iq"
                    /\ replies[k].type = "error"
                    /\ replies[k].payload = "cancel service-unavailable"
                    /\ replies[k].id = requests[k].id
                    /\ replies[k].from = requests[k].to
                    /\ replies[k].to = requests[k].from
                /\ \A k \in 1..Len(sess.returned) :
                    sess.read[sess.returned[k].at].stanza # "iq")
    /\ [][IqHandled =>
            /\ sess'.pc = "next_message"
            /\ sess'.returned = sess.returned
            /\ Len(sess'.outbox) = Len(sess.outbox)
                    + (IF IsRequest(sess'.read[Len(sess'.read)]) THEN 1 ELSE 0)]_vars

\* C12 witness: a get request and a result have been read; one reply went out,
\* to the sender of the request, and nothing was returned.
C12_Witness ==
    /\ sess.read = <<SelfPresence, IqOfType("get", "ping-1"), IqOfType("result", "r-3")>>
    /\ sess.pc = "next_message"
    /\ sess.returned = <<>>
    /\ Len(sess.outbox) = 2
    /\ sess.outbox[2].type = "error"
    /\ sess.outbox[2].id = "ping-1"
    /\ sess.outbox[2].from = BoundJid
    /\ sess.outbox[2].to = ServerJid

\* A presence whose MucUser payload carries the status 110.
HasSelfStatus(u) == u.kind = "item" /\ u.stanza = "presence" /\ u.mucUser /\ u.selfPresence

\* new() has returned Ok.
SessionReady == sess.pc \in {"ready", "next_message"} \/ sess.failedIn = "next_message"

\* C13, as the code has it: new() returns Ok only after the join was sent and a
\* presence with the status 110 was read, the first such unit, whoever sent
\* it; the units read up to there are never returned by next_message(); when
\* the stream ends during the wait new() fails with StreamEnded.
C13_ReadyAfterJoin ==
    /\ SessionReady <=> sess.joinedAt > 0
    /\ sess.joinedAt > 0 =>
        /\ sess.outbox # <<>> /\ sess.outbox[1] = JoinMessage
        /\ sess.joinedAt <= Len(sess.read)
        /\ HasSelfStatus(sess.read[sess.joinedAt])
        /\ \A j \in 1..(sess.joinedAt - 1) :
                sess.read[j].kind = "item" /\ ~HasSelfStatus(sess.read[j])
        /\ \A k \in 1..Len(sess.returned) : sess.returned[k].at > sess.joinedAt
    /\ sess.pc = "wait_for_join" =>
        /\ sess.outbox = <<JoinMessage>>
        /\ \A j \in 1..Len(sess.read) :
                sess.read[j].kind = "item" /\ ~HasSelfStatus(sess.read[j])
    /\ sess.failedIn = "wait_for_join" =>
        /\ sess.returned = <<>>
        /\ sess.read[Len(sess.read)].kind \in {"closed", "error"}
        /\ sess.read[Len(sess.read)].kind = "closed" <=> sess.err = "StreamEnded"

\* C13 witness: a product and another occupant's presence arrived during the
\* wait, then the self-presence; new() returned Ok with nothing to return.
C13_Witness ==
    /\ sess.read = <<Bulletin, OccupantPresence, SelfPresence>>
    /\ sess.pc = "ready"
    /\ sess.joinedAt = 3
    /\ sess.returned = <<>>

\* C13 as stated: the unit that ends the wait is the confirmation for the
\* occupant JID this Connection asked for.
C13_ConfirmationForOwnNickname ==
    /\ C13_ReadyAfterJoin
    /\ sess.joinedAt > 0 => sess.read[sess.joinedAt].from = ChannelJid

\* C14: when SimpleClient::new fails, new() returns Configuration for a JID
\* that does not parse, Credentials for a refused authentication and Network
\* for any other failure, never XmppParseError or StreamEnded; nothing was
\* sent or read by then.
C14_HandshakeClassification ==
    sess.failedIn = "handshake" =>
        /\ sess.pc = "failed"
        /\ sess.cause \in HandshakeErrors
        /\ sess.cause = "JidParse" <=> sess.err = "Configuration"
        /\ sess.cause = "Auth" <=> sess.err = "Credentials"
        /\ sess.cause = "Other" <=> sess.err = "Network"
        /\ sess.err \notin {"XmppParseError", "StreamEnded"}
        /\ sess.outbox = <<>> /\ sess.read = <<>>

\* C14 witness: the server refused the password and new() returned Credentials.
C14_Witness ==
    /\ sess.failedIn = "handshake"
    /\ sess.cause = "Auth"
    /\ sess.err = "Credentials"

\* Where run_once is inside Connection::new or uses the Connection it returned.
SessionPcs ==
    {"handshake", "send_join", "wait_for_join", "send_connected", "next_message",
     "iq_reply", "send_message"}

\* C19: once Connection::new or next_message has returned an error, run_once
\* does nothing more with that Connection: it publishes, sleeps and returns.
\* The error is taken as it comes, nothing is tried again inside the attempt:
\* a handshake starts only at the start of an attempt, with no Connection
\* left from the one before, and it is given the Stream's Config, which never
\* changes.
C19_FailureIsTerminal ==
    /\ [](err # "-" => pc \notin SessionPcs)
    /\ [](conn # "none" => connConfig = config)
    /\ [](connConfig \in {NoConfig, config})
    /\ [][/\ config' = config
          /\ err = "-" /\ err' # "-"
                => pc \in SessionPcs /\ pc' \in {"send_error_connect", "send_error_session"}
          /\ err # "-" /\ err' # err => pc = "send_connecting" /\ err' = "-"
          /\ pc' = "handshake" /\ pc # "handshake"
                => pc = "send_connecting" /\ conn = "none" /\ err' = "-"
          /\ pc' = "next_message" /\ pc \notin {"next_message", "iq_reply", "send_message"}
                => pc = "send_connected" /\ err = "-"
          /\ conn = "none" /\ conn' # "none"
                => pc = "handshake" /\ connConfig' = config]_vars

\* C19 witness: the first Connection failed after it was joined, its Error is
\* still in the buffer, and the second attempt has a Connection of its own.
C19_Witness ==
    /\ attemptsLeft = MaxAttempts - 2
    /\ pc = "next_message"
    /\ conn = "joined"
    /\ connConfig = config
    /\ err = "-"
    /\ \E i \in 1..Len(chan) : chan[i].ev = ErrorEvent("StreamEnded")

\* The supervisor is inside tx.send(..).await and the buffer has no free slot.
Suspended == rxAlive /\ Len(chan) = ChannelCapacity /\ pc \in SendPcs

NewlinesOf(t) == {i \in 1..Len(t) : t[i] = NL}

\* The newlines directly before position i.
RunBefore(t, i) ==
    LET others == {j \in 1..(i - 1) : t[j] # NL}
    IN  IF others = {} THEN i - 1
        ELSE (i - 1) - (CHOOSE j \in others : \A k \in others : k <= j)

\* Where the doubled newlines of t begin: at every second newline of a run.
DoubledAt(t) ==
    {i \in 1..(Len(t) - 1) : t[i] = NL /\ t[i + 1] = NL /\ RunBefore(t, i) % 2 = 0}

\* t with the second newline of every doubled newline removed.
Undoubled(t) ==
    LET kept == (1..Len(t)) \ {i + 1 : i \in DoubledAt(t)}
    IN  [k \in 1..Cardinality(kept) |->
            t[CHOOSE p \in kept : Cardinality({q \in kept : q <= p}) = k]]

\* Message::try_from has returned for a room broadcast carrying the payload
\* element, so it got as far as the text.
DecodedText == dec.state = "returned" /\ dec.value.type_ = "groupchat" /\ dec.value.oi

\* C15: a stanza without the payload element, or of another type than
\* groupchat, is rejected whatever its subject, body, delay and attributes are;
\* the rejection is the bare Err, no field of a Message is filled.
C15_RejectsForeignUnits ==
    dec.state = "returned" /\ (~dec.value.oi \/ dec.value.type_ # "groupchat")
        => dec.result = Rejected

\* C15 witness: the room's subject announcement (groupchat, subject, delay,
\* no payload element) has been rejected.
C15_Witness ==
    /\ dec.state = "returned"
    /\ dec.value.type_ = "groupchat"
    /\ dec.value.subject
    /\ dec.value.delay = "2022-02-04T02:55:11.810Z"
    /\ ~dec.value.oi
    /\ dec.result = Rejected

\* C16: when the text has twice as many newlines as doubled newlines, every
\* doubled newline has become a single one; otherwise the text is unchanged.
C16_NewlineNormalization ==
    DecodedText =>
        dec.message = IF Cardinality(NewlinesOf(dec.value.text))
                            = 2 * Cardinality(DoubledAt(dec.value.text))
                      THEN Undoubled(dec.value.text)
                      ELSE dec.value.text

\* C16 witness: a text whose every newline was doubled has been collapsed.
C16_Witness ==
    /\ DecodedText
    /\ dec.value.text = <<"a", NL, NL, "a", NL, NL>>
    /\ dec.message = <<"a", NL, "a", NL>>

\* The normalized text is an empty line, then a line, then a remainder.
HasTwoLines(t) == Len(t) >= 2 /\ t[1] = NL /\ \E k \in 2..Len(t) : t[k] = NL

\* Where the second line of such a text ends.
SecondNewline(t) == CHOOSE k \in 2..Len(t) : t[k] = NL /\ \A j \in 2..(k - 1) : t[j] # NL

\* C17: a normalized text made of an empty line, a line that parses as an
\* unsigned integer and a remainder gives that integer and the remainder;
\* every other text gives no sequence number and the text itself.
C17_SequenceExtraction ==
    dec.state = "returned" /\ dec.result.ok =>
        LET t == dec.message
            numbered == HasTwoLines(t)
                        /\ ParseU32(SubSeq(t, 2, SecondNewline(t) - 1)) # NoNumber
        IN  IF numbered
            THEN /\ dec.result.ldm_sequence_number
                        = ParseU32(SubSeq(t, 2, SecondNewline(t) - 1))
                 /\ dec.result.message = SubSeq(t, SecondNewline(t) + 1, Len(t))
            ELSE /\ dec.result.ldm_sequence_number = NoNumber
                 /\ dec.result.message = t

\* C17 witness: the number 11 was taken off the front of a text.
C17_Witness ==
    /\ dec.state = "returned"
    /\ dec.result.ok
    /\ dec.message = <<NL, "1", "1", NL, "a", NL>>
    /\ dec.result.ldm_sequence_number = 11
    /\ dec.result.message = <<"a", NL>>

\* The attributes try_from needs besides awipsid.
MissingMandatory(v) ==
    \/ Absent \in {v.cccc, v.id, v.issue, v.ttaaii}
    \/ ParseRfc3339(v.issue) = NoTime

\* C18: with the payload element there, a missing cccc, id, issue or ttaaii or
\* an issue that does not parse rejects the whole stanza; a Message is never
\* partly filled; an empty awipsid becomes None, another one is kept as it is.
C18_MandatoryAttributes ==
    dec.state = "returned" =>
        /\ MissingMandatory(dec.value) => dec.result = Rejected
        /\ dec.result.ok =>
            /\ dec.result.cccc = dec.value.cccc /\ dec.result.cccc # Absent
            /\ dec.result.id = dec.value.id /\ dec.result.id # Absent
            /\ dec.result.ttaaii = dec.value.ttaaii /\ dec.result.ttaaii # Absent
            /\ dec.result.issue = ParseRfc3339(dec.value.issue)
            /\ dec.result.issue # NoTime
            /\ dec.value.awipsid = "" => dec.result.awips_id = Absent
            /\ dec.value.awipsid # "" => dec.result.awips_id = dec.value.awipsid

\* C18 witness: a room broadcast with the payload element and every attribute
\* but cccc has been rejected.
C18_Witness ==
    /\ dec.state = "returned"
    /\ dec.value.type_ = "groupchat"
    /\ dec.value.oi
    /\ dec.value.cccc = Absent
    /\ Absent \notin {dec.value.awipsid, dec.value.id, dec.value.ttaaii}
    /\ dec.value.issue = "2022-02-04T02:54:00Z"
    /\ dec.result = Rejected

\* The longest run of newlines in t.
LongestRun(t) ==
    LET ends == {i \in 1..Len(t) : t[i] = NL}
        runs == {RunBefore(t, i + 1) : i \in ends} \cup {0}
    IN  CHOOSE r \in runs : \A q \in runs : q <= r

\* The doubling test of the decoder, on the positions of t.
PassesDoublingTest(t) == Cardinality(NewlinesOf(t)) = 2 * Cardinality(DoubledAt(t))

\* C22: when the doubling test holds for the text, the normalized text has
\* exactly half of its newlines, every other character in place, and its
\* longest run of newlines is half as long: four newlines become two, not one,
\* even where the result passes the doubling test again.
C22_NormalizedOnce ==
    DecodedText /\ PassesDoublingTest(dec.value.text) =>
        /\ 2 * Cardinality(NewlinesOf(dec.message)) = Cardinality(NewlinesOf(dec.value.text))
        /\ 2 * LongestRun(dec.message) = LongestRun(dec.value.text)
        /\ Len(dec.message) = Len(dec.value.text) - Cardinality(DoubledAt(dec.value.text))

\* C22 witness: a run of four newlines has become a run of two, and the result
\* passes the doubling test itself.
C22_Witness ==
    /\ DecodedText
    /\ dec.value.text = <<"a", NL, NL, NL, NL, "a">>
    /\ dec.message = <<"a", NL, NL, "a">>
    /\ PassesDoublingTest(dec.message)

\* b with every newline replaced by two.
RECURSIVE Doubled(_)
Doubled(b) ==
    IF b = <<>> THEN <<>>
    ELSE (IF Head(b) = NL THEN <<NL, NL>> ELSE <<Head(b)>>) \o Doubled(Tail(b))

\* t is some text with every newline replaced by two: each of its runs of
\* newlines has an even length.
IsDoubling(t) ==
    \A i \in NewlinesOf(t) :
        (i = Len(t) \/ t[i + 1] # NL) => RunBefore(t, i + 1) % 2 = 0

\* C23: the sequence number is looked for after the normalization.  Of a text
\* that doubles every newline of a text b beginning with an empty line and a
\* numeric line, the Message has the number and the rest of b.  A text that
\* begins with two newlines and fails the doubling test gives no number and is
\* the message as it is.
C23_SequenceAfterNormalization ==
    dec.state = "returned" /\ dec.result.ok =>
        LET t == dec.value.text
            b == Undoubled(t)
        IN  /\ (/\ Doubled(b) = t
                /\ HasTwoLines(b)
                /\ ParseU32(SubSeq(b, 2, SecondNewline(b) - 1)) # NoNumber)
                    => /\ dec.result.ldm_sequence_number
                            = ParseU32(SubSeq(b, 2, SecondNewline(b) - 1))
                       /\ dec.result.message = SubSeq(b, SecondNewline(b) + 1, Len(b))
            /\ (/\ ~PassesDoublingTest(t)
                /\ Len(t) >= 2
                /\ t[1] = NL
                /\ t[2] = NL)
                    => /\ dec.result.ldm_sequence_number = NoNumber
                       /\ dec.result.message = t

\* C23 witness: the text of the test parse_awips, every newline doubled, gave
\* the number 1 and the rest with single newlines.
C23_Witness ==
    /\ dec.state = "returned"
    /\ dec.result.ok
    /\ dec.value.text = <<NL, NL, "1", NL, NL, "a", NL, NL>>
    /\ dec.result.ldm_sequence_number = 1
    /\ dec.result.message = <<"a", NL>>

\* C26: when the text is some b with every newline replaced by two, the
\* normalized text is that b: doubling it again gives the text back.
C26_DoublingRoundTrip ==
    DecodedText /\ IsDoubling(dec.value.text) => Doubled(dec.message) = dec.value.text

\* C26 witness: a doubled text with a run of four newlines came back as the
\* text with the run of two.
C26_Witness ==
    /\ DecodedText
    /\ IsDoubling(dec.value.text)
    /\ dec.value.text = <<"1", NL, NL, NL, NL>>
    /\ dec.message = <<"1", NL, NL>>

\* What the supervisor and the consumer see and do.
supervisorVars ==
    <<pc, attempt, err, msg, conn, connTime, chan, senders, rxAlive, nsent, nrecv,
      lastEvt, prevEvt, sleeps, elapsed, duration, attemptsLeft, nmsg, msgBudget>>

\* C21: a teardown sends the leave first and goes on to close the transport
\* whatever came of the leave; each of its two steps can always be taken, and
\* neither publishes an event or changes anything of the supervisor loop.
C21_BestEffortTeardown ==
    /\ [](ending.leave > 0 => ENABLED EndSendLeave)
    /\ [](ending.close > 0 => ENABLED EndClose)
    /\ [][/\ ending'.leave < ending.leave
                => /\ ending'.leave = ending.leave - 1
                   /\ ending'.close = ending.close + 1
                   /\ supervisorVars' = supervisorVars
          /\ ending'.close > ending.close => ending'.leave = ending.leave - 1
          /\ ending'.close < ending.close
                => /\ ending' = [ending EXCEPT !.close = @ - 1]
                   /\ supervisorVars' = supervisorVars
          /\ ending'.leave > ending.leave
                => nsent' = nsent + 1 /\ lastEvt' = Disconnected]_vars

\* C21 witness: a teardown has sent its leave and has yet to close the
\* transport, while run_once has returned and run sleeps.
C21_Witness ==
    /\ ending = [leave |-> 0, close |-> 1]
    /\ pc = "sleep_floor"
    /\ lastEvt = Disconnected

\* Connections that exist: the one run_once is making or using, and those
\* whose teardown has not finished.
OpenSessions ==
    (IF conn # "none" \/ pc \in ConnectingPcs THEN 1 ELSE 0) + ending.leave + ending.close

\* C24 as stated: no two Connections exist at a time; when Connection::new is
\* called the teardown of the Connection before has finished.
C24_OneSessionOpen ==
    /\ OpenSessions <= 1
    /\ pc = "handshake" => ending.leave + ending.close = 0

\* The numbers of the Messages in the buffer, in the order they are in.
RECURSIVE MessageNumbers(_)
MessageNumbers(q) ==
    IF q = <<>> THEN <<>>
    ELSE (IF Head(q).ev.type = "Message" THEN <<Head(q).ev.msg>> ELSE <<>>)
         \o MessageNumbers(Tail(q))

\* C25: with the consumer there, the Messages in the buffer are the last ones
\* next_message returned but for the one held, each once and in the order they
\* were returned; a Message is read only when none is held, and the one held
\* is the next one published.
C25_PublishedOnceInOrder ==
    /\ [](rxAlive =>
            LET ms == MessageNumbers(chan)
                published == nmsg - (IF msg # 0 THEN 1 ELSE 0)
            IN  \A i \in 1..Len(ms) : ms[i] = published - Len(ms) + i)
    /\ [](msg # 0 => msg = nmsg /\ pc = "send_message")
    /\ [][/\ nmsg' # nmsg => msg = 0 /\ nmsg' = nmsg + 1 /\ msg' = nmsg'
          /\ nsent' # nsent /\ msg # 0
                => /\ Published(MessageEvent(msg))
                   /\ msg' = 0
                   /\ pc' = "next_message"
                   /\ nmsg' = nmsg
          /\ nsent' # nsent /\ lastEvt'.type = "Message" => lastEvt'.msg = msg /\ msg # 0]_vars

\* C25 witness: the consumer has taken Connecting and Connected; the first
\* three Messages are in the buffer in their order and the fourth is held.
C25_Witness ==
    /\ rxAlive
    /\ nrecv = 2
    /\ MessageNumbers(chan) = <<1, 2, 3>>
    /\ Len(chan) = 3
    /\ msg = 4
    /\ pc = "send_message"

====
